---- MODULE Spec2Model ----
(***************************************************************************)
(* A model of cladur/lol: the L_int partial evaluator and interpreter of   *)
(* src/main.rs, and the tokenizer, parser, printer and evaluator of        *)
(* src/parser.rs.                                                          *)
(***************************************************************************)
EXTENDS Integers, Sequences, FiniteSets, TLC

VARIABLES
    pc,               \* position of the pipeline that is running
    overflow_checks,  \* build profile: TRUE panics on i32 overflow, FALSE wraps
    stdin,            \* the lines standard input will deliver to `read`
    exp,              \* main.rs: the Call-based AST handed to the functions
    pe_ast,           \* main.rs: partially_evaluate(exp)
    pe_again,         \* main.rs: partially_evaluate(pe_ast)
    out_ast,          \* main.rs: interpret(exp)
    out_pe,           \* main.rs: interpret(pe_ast)
    ast_in,           \* parser.rs: the AST handed to Display or to evaluate
    text,             \* parser.rs: the source text, a sequence of characters
    tokens,           \* parser.rs: tokenize(text)
    parsed,           \* parser.rs: parse(tokens), with the cursor it stopped at
    env,              \* parser.rs: the Env of one evaluate call
    kont,             \* parser.rs: the pending work of eval, innermost first
    vals,             \* parser.rs: the values eval has returned and not yet used
    pos,              \* parser.rs: lines of stdin eval has consumed
    fault,            \* parser.rs: why eval panicked ("" while it has not)
    written           \* history: the last value each Let binding wrote

vars == <<pc, overflow_checks, stdin, exp, pe_ast, pe_again, out_ast, out_pe,
          ast_in, text, tokens, parsed, env, kont, vals, pos, fault, written>>

mainVars == <<exp, pe_ast, pe_again, out_ast, out_pe>>
parserVars == <<ast_in, text, tokens, parsed>>
evalVars == <<env, kont, vals, pos, fault, written>>

(***************************************************************************)
(* i32 arithmetic.  `+=`, `-=`, `+` and `-` on i32 panic on overflow when  *)
(* the build has overflow checks (the dev profile) and wrap modulo 2^32    *)
(* otherwise (the release profile).                                        *)
(***************************************************************************)
I32_MAX == 2147483647
I32_MIN == (-I32_MAX) - 1

Done(v) == [ok |-> TRUE, val |-> v]
Panic == [ok |-> FALSE, val |-> 0]

AddOverflows(a, b) ==
    \/ b > 0 /\ a > I32_MAX - b
    \/ b < 0 /\ a < I32_MIN - b

wrapping_add(a, b) ==
    IF b > 0 /\ a > I32_MAX - b THEN ((a - I32_MAX) - 1) + ((b - I32_MAX) - 1)
    ELSE IF b < 0 /\ a < I32_MIN - b THEN ((a + I32_MAX) + 1) + ((b + I32_MAX) + 1)
    ELSE a + b

SubOverflows(a, b) ==
    \/ b < 0 /\ a > I32_MAX + b
    \/ b > 0 /\ a < I32_MIN + b

wrapping_sub(a, b) ==
    IF b < 0 /\ a > I32_MAX + b THEN ((a - I32_MAX) - 1) - ((b + I32_MAX) + 1)
    ELSE IF b > 0 /\ a < I32_MIN + b THEN ((a + I32_MAX) + 1) - ((b - I32_MAX) - 1)
    ELSE a - b

i32_add(a, b) ==
    IF AddOverflows(a, b) /\ overflow_checks THEN Panic ELSE Done(wrapping_add(a, b))

i32_sub(a, b) ==
    IF SubOverflows(a, b) /\ overflow_checks THEN Panic ELSE Done(wrapping_sub(a, b))

(***************************************************************************)
(* src/main.rs: the Call-based Expression.                                 *)
(***************************************************************************)
Number(n) == [tag |-> "Number", n |-> n]
Call(id, args) == [tag |-> "Call", id |-> id, args |-> args]
\* Outcomes that are not an Expression: the function panicked, or has not run.
Panicked == [tag |-> "Panic"]
NotRun == [tag |-> "NotRun"]

RECURSIVE partially_evaluate(_)
RECURSIVE FoldArgs(_, _, _)

\* The `for arg in args.iter()` loops of the "+" and "-" branches: constants
\* are added to the running sum, every other result is pushed to new_args.
FoldArgs(args, sum, new_args) ==
    IF args = <<>> THEN [ok |-> TRUE, sum |-> sum, new_args |-> new_args]
    ELSE LET r == partially_evaluate(Head(args)) IN
         IF r.tag = "Panic" THEN [ok |-> FALSE, sum |-> 0, new_args |-> <<>>]
         ELSE IF r.tag = "Number"
              THEN LET s == i32_add(sum, r.n) IN
                   IF s.ok THEN FoldArgs(Tail(args), s.val, new_args)
                   ELSE [ok |-> FALSE, sum |-> 0, new_args |-> <<>>]
              ELSE FoldArgs(Tail(args), sum, Append(new_args, r))

\* "+": `if new_args.is_empty() { Number(sum) } else { insert(0, Number(sum)) ... }`
AddResult(sum, new_args) ==
    IF new_args = <<>> THEN Number(sum)
    ELSE Call("+", <<Number(sum)>> \o new_args)

\* A slip in the "-" branch: the subtrahend total is pushed before the match
\* on the minuend, so a constant minuend gets it too.
SubResultPushHoisted(minuend, new_args, subtrahend_sum) ==
    IF minuend.tag = "Number"
    THEN LET d == i32_sub(minuend.n, subtrahend_sum) IN
         IF ~d.ok THEN Panicked
         ELSE Call("-", <<Number(d.val)>> \o new_args \o <<Number(subtrahend_sum)>>)
    ELSE Call("-", <<minuend>> \o new_args \o <<Number(subtrahend_sum)>>)

\* "-": `match minuend { Number(n) => ..., Call(id, args) => ... }`
SubResult(minuend, new_args, subtrahend_sum) ==
    IF minuend.tag = "Number"
    THEN LET d == i32_sub(minuend.n, subtrahend_sum) IN
         IF ~d.ok THEN Panicked
         ELSE IF new_args = <<>> THEN Number(d.val)
         ELSE Call("-", <<Number(d.val)>> \o new_args)
    ELSE Call("-", <<minuend>> \o new_args \o <<Number(subtrahend_sum)>>)

\* A slip in the opaque branches: the unknown call is folded to the
\* placeholder value interpret gives it.
OpaquePlaceholder(id, args) == Number(0)

\* "read" and `_`: the call is returned as it came.
Opaque(id, args) == Call(id, args)

partially_evaluate(e) ==
    IF e.tag = "Number" THEN Number(e.n)
    ELSE IF e.id = "+"
    THEN LET f == FoldArgs(e.args, 0, <<>>) IN
         IF f.ok THEN AddResult(f.sum, f.new_args) ELSE Panicked
    ELSE IF e.id = "-"
    THEN IF e.args = <<>> THEN Panicked   \* args[0]: index out of bounds
         ELSE LET minuend == partially_evaluate(e.args[1])
                  f == FoldArgs(Tail(e.args), 0, <<>>)
              IN  IF minuend.tag = "Panic" \/ ~f.ok THEN Panicked
                  ELSE SubResult(minuend, f.new_args, f.sum)
    ELSE Opaque(e.id, e.args)

(***************************************************************************)
(* Standard input: each line either parses as an i32 or does not.          *)
(***************************************************************************)
Line(n) == [valid |-> TRUE, n |-> n]
BadLine == [valid |-> FALSE, n |-> 0]

\* `read_line` then `input.trim().parse().unwrap()` at cursor p of stdin; at end
\* of input the line is empty and the parse fails.
read_line(in, p) ==
    IF p < Len(in) /\ in[p + 1].valid
    THEN [ok |-> TRUE, val |-> in[p + 1].n, pos |-> p + 1]
    ELSE [ok |-> FALSE, val |-> 0, pos |-> IF p < Len(in) THEN p + 1 ELSE p]

RECURSIVE interpret(_, _, _)
RECURSIVE InterpretSum(_, _, _, _)
RECURSIVE InterpretDifference(_, _, _, _)

\* "+": `for arg in args { sum += interpret(arg); }`
InterpretSum(args, sum, in, p) ==
    IF args = <<>> THEN [ok |-> TRUE, val |-> sum, pos |-> p]
    ELSE LET r == interpret(Head(args), in, p) IN
         IF ~r.ok THEN r
         ELSE LET s == i32_add(sum, r.val) IN
              IF s.ok THEN InterpretSum(Tail(args), s.val, in, r.pos)
              ELSE [ok |-> FALSE, val |-> 0, pos |-> r.pos]

\* "-": `for arg in args[1..].iter() { sum -= interpret(arg.clone()); }`
InterpretDifference(args, sum, in, p) ==
    IF args = <<>> THEN [ok |-> TRUE, val |-> sum, pos |-> p]
    ELSE LET r == interpret(Head(args), in, p) IN
         IF ~r.ok THEN r
         ELSE LET s == i32_sub(sum, r.val) IN
              IF s.ok THEN InterpretDifference(Tail(args), s.val, in, r.pos)
              ELSE [ok |-> FALSE, val |-> 0, pos |-> r.pos]

interpret(e, in, p) ==
    IF e.tag = "Number" THEN [ok |-> TRUE, val |-> e.n, pos |-> p]
    ELSE IF e.id = "+" THEN InterpretSum(e.args, 0, in, p)
    ELSE IF e.id = "-"
    THEN IF e.args = <<>> THEN [ok |-> FALSE, val |-> 0, pos |-> p]
         ELSE LET first == interpret(e.args[1], in, p) IN
              IF ~first.ok THEN first
              ELSE InterpretDifference(Tail(e.args), first.val, in, first.pos)
    ELSE IF e.id = "read" THEN read_line(in, p)
    ELSE [ok |-> TRUE, val |-> 0, pos |-> p]

NoOutput == [ok |-> FALSE, val |-> 0, pos |-> 0]

(***************************************************************************)
(* The inputs of the main.rs functions: every Call-based Expression of at  *)
(* most MaxNodes nodes over the heads and literals below, and every stdin  *)
(* that has one line for each read call of the expression.                 *)
(***************************************************************************)
MaxNodes == 4

Literals == {1, I32_MAX}
Heads == {"+", "-", "read", "foo"}
Lines == {Line(-1), Line(I32_MAX), BadLine}

RECURSIVE ExpressionsOfSize(_)
RECURSIVE ArgsOfSize(_)

ArgsOfSize(m) ==
    IF m = 0 THEN {<<>>}
    ELSE UNION {{<<h>> \o t : h \in ExpressionsOfSize(k), t \in ArgsOfSize(m - k)} :
                k \in 1..m}

ExpressionsOfSize(n) ==
    {Call(id, args) : id \in Heads, args \in ArgsOfSize(n - 1)}
        \cup (IF n = 1 THEN {Number(l) : l \in Literals} ELSE {})

\* e is one of the expressions of at most max nodes.
IsExpressionUpTo(e, max) ==
    \/ \E l \in Literals : e = Number(l)
    \/ \E id \in Heads : e = Call(id, <<>>)
    \/ \E n \in 2..max, k \in 1..(max - 1) :
          /\ k <= n - 1
          /\ \E id \in Heads, h \in ExpressionsOfSize(k), t \in ArgsOfSize(n - 1 - k) :
                e = Call(id, <<h>> \o t)

RECURSIVE ReadCalls(_)
RECURSIVE ReadCallsOfArgs(_)

ReadCallsOfArgs(args) ==
    IF args = <<>> THEN 0 ELSE ReadCalls(Head(args)) + ReadCallsOfArgs(Tail(args))

ReadCalls(e) ==
    IF e.tag = "Number" THEN 0
    ELSE (IF e.id = "read" THEN 1 ELSE 0) + ReadCallsOfArgs(e.args)

RECURSIVE HeadsOf(_)
RECURSIVE HeadsOfArgs(_)

HeadsOfArgs(args) ==
    IF args = <<>> THEN {} ELSE HeadsOf(Head(args)) \cup HeadsOfArgs(Tail(args))

\* The operator names that occur in an expression.
HeadsOf(e) == IF e.tag = "Number" THEN {} ELSE {e.id} \cup HeadsOfArgs(e.args)

StdinsOfLength(n) == [1..n -> Lines]

EmptyEnv == [name \in {} |-> 0]
NoParse == [ok |-> FALSE, ast |-> NotRun, pos |-> 0]

ParserIdle ==
    /\ ast_in = NotRun /\ text = <<>> /\ tokens = <<>> /\ parsed = NoParse

EvalIdle ==
    /\ env = EmptyEnv /\ kont = <<>> /\ vals = <<>> /\ pos = 0
    /\ fault = "" /\ written = EmptyEnv

MainIdle ==
    /\ exp = NotRun /\ pe_ast = NotRun /\ pe_again = NotRun
    /\ out_ast = NoOutput /\ out_pe = NoOutput

(***************************************************************************)
(* src/main.rs, one action for each application of its functions.          *)
(***************************************************************************)
Init ==
    /\ pc = "start"
    /\ overflow_checks \in BOOLEAN
    /\ IsExpressionUpTo(exp, MaxNodes)
    /\ stdin \in StdinsOfLength(ReadCalls(exp))
    /\ pe_ast = NotRun /\ pe_again = NotRun
    /\ out_ast = NoOutput /\ out_pe = NoOutput
    /\ ParserIdle /\ EvalIdle

\* `let pe_ast = partially_evaluate(ast.clone());`
PartiallyEvaluate ==
    /\ pc = "start"
    /\ pe_ast' = partially_evaluate(exp)
    /\ pc' = "folded"
    /\ UNCHANGED <<overflow_checks, stdin, exp, pe_again, out_ast, out_pe,
                   parserVars, evalVars>>

\* `interpret(ast)`
InterpretAst ==
    /\ pc = "folded"
    /\ out_ast' = interpret(exp, stdin, 0)
    /\ pc' = "interpreted"
    /\ UNCHANGED <<overflow_checks, stdin, exp, pe_ast, pe_again, out_pe,
                   parserVars, evalVars>>

\* `interpret(pe_ast)`, on the same input lines
InterpretFolded ==
    /\ pc = "interpreted"
    /\ pe_ast.tag # "Panic"
    /\ out_pe' = interpret(pe_ast, stdin, 0)
    /\ pc' = "compared"
    /\ UNCHANGED <<overflow_checks, stdin, exp, pe_ast, pe_again, out_ast,
                   parserVars, evalVars>>

\* partially_evaluate applied to its own result
FoldAgain ==
    /\ pc = "compared"
    /\ pe_again' = partially_evaluate(pe_ast)
    /\ pc' = "refolded"
    /\ UNCHANGED <<overflow_checks, stdin, exp, pe_ast, out_ast, out_pe,
                   parserVars, evalVars>>

Next == PartiallyEvaluate \/ InterpretAst \/ InterpretFolded \/ FoldAgain

Spec == Init /\ [][Next]_vars

(***************************************************************************)
(* Claims about partially_evaluate and interpret, checked under Spec.      *)
(***************************************************************************)
Compared == pc \in {"compared", "refolded"}

\* C1: for every expression built only from Number literals and the
\* operators + and - on which interpret returns an integer,
\* partially_evaluate returns an expression and interpret returns the same
\* integer on it.
C1_FoldingKeepsTheValue ==
    (pc \in {"interpreted", "compared", "refolded"}
        /\ HeadsOf(exp) \subseteq {"+", "-"} /\ out_ast.ok)
    => /\ pe_ast.tag # "Panic"
       /\ Compared => (out_pe.ok /\ out_pe.val = out_ast.val)

\* C2: for every expression without a read call on which partially_evaluate
\* returns, partially_evaluate applied to its result returns that result.
C2_FoldingIsIdempotent ==
    (pc = "refolded" /\ "read" \notin HeadsOf(exp)) => pe_again = pe_ast

\* C2's case: an expression with an unknown call in it was folded to a
\* different Call, and that Call was folded again.
C2_Witness ==
    /\ pc = "refolded" /\ "read" \notin HeadsOf(exp) /\ "foo" \in HeadsOf(exp)
    /\ pe_ast.tag = "Call" /\ pe_ast.id = "-" /\ pe_ast # exp

\* C4: partially_evaluate returns an Expression on every Call-based
\* expression; it never panics.
C4_PartiallyEvaluateNeverFails ==
    pc # "start" => pe_ast.tag # "Panic"

\* C8: partially_evaluate of a Call whose head is read or any operator other
\* than + and - is that same Call, arguments unfolded.
C8_OpaqueCallsAreUnchanged ==
    (pc # "start" /\ exp.tag = "Call" /\ exp.id \notin {"+", "-"}) => pe_ast = exp

\* C8's case: an opaque call with a foldable argument went through
\* partially_evaluate.
C8_Witness ==
    /\ pc # "start" /\ exp.tag = "Call" /\ exp.id \in {"read", "foo"}
    /\ Len(exp.args) > 0 /\ exp.args[1].tag = "Call" /\ exp.args[1].id = "+"
    /\ Len(exp.args[1].args) = 2

\* C10: for every expression with read calls on which partially_evaluate
\* returns and interpret returns an integer, the folded expression has as
\* many read calls, and interpret on it, fed the same lines, consumes the
\* same lines and returns the same integer.
C10_FoldingKeepsTheReads ==
    (Compared /\ ReadCalls(exp) > 0 /\ out_ast.ok)
    => /\ ReadCalls(pe_ast) = ReadCalls(exp)
       /\ out_pe = out_ast

(***************************************************************************)
(* src/parser.rs: tokens and tokenize.  A text is a sequence of characters *)
(* (one-character strings); an identifier is the sequence of its           *)
(* characters.                                                             *)
(***************************************************************************)
DigitChars == <<"0", "1", "2", "3", "4", "5", "6", "7", "8", "9">>
Digits == {DigitChars[i] : i \in 1..10}
DigitValue(c) == (CHOOSE i \in 1..10 : DigitChars[i] = c) - 1

\* 'a'..='z' | 'A'..='Z' | '+' | '-' | '*' | '/'
IdentifierChars ==
    {"a", "b", "c", "d", "e", "f", "g", "h", "i", "j", "k", "l", "m",
     "n", "o", "p", "q", "r", "s", "t", "u", "v", "w", "x", "y", "z",
     "A", "B", "C", "D", "E", "F", "G", "H", "I", "J", "K", "L", "M",
     "N", "O", "P", "Q", "R", "S", "T", "U", "V", "W", "X", "Y", "Z",
     "+", "-", "*", "/"}

Token_Identifier(id) == [kind |-> "Identifier", id |-> id]
Token_Number(n) == [kind |-> "Number", n |-> n]
Token_LParen == [kind |-> "LParen"]
Token_RParen == [kind |-> "RParen"]
Token_EndOfFile == [kind |-> "EndOfFile"]

RECURSIVE parse_i32(_, _)
\* `number.parse()` on a run of decimal digits: Err when the value exceeds
\* i32::MAX.  acc is the value of the digits read so far.
parse_i32(digits, acc) ==
    IF digits = <<>> THEN Done(acc)
    ELSE LET d == DigitValue(Head(digits)) IN
         IF acc > (I32_MAX - d) \div 10 THEN Panic
         ELSE parse_i32(Tail(digits), acc * 10 + d)

RECURSIVE RunEnd(_, _, _)
\* The inner `while let Some(&c) = chars.peek()` loops: the first position
\* at or after i whose character is not in class (or Len + 1).
RunEnd(input, i, class) ==
    IF i <= Len(input) /\ input[i] \in class THEN RunEnd(input, i + 1, class) ELSE i

RECURSIVE Scan(_, _, _)
\* The outer loop of tokenize, from position i with toks pushed so far.
Scan(input, i, toks) ==
    IF i > Len(input) THEN [ok |-> TRUE, tokens |-> Append(toks, Token_EndOfFile)]
    ELSE LET c == input[i] IN
         IF c \in Digits
         THEN LET j == RunEnd(input, i, Digits)
                  n == parse_i32(SubSeq(input, i, j - 1), 0)
              IN  IF n.ok THEN Scan(input, j, Append(toks, Token_Number(n.val)))
                  ELSE [ok |-> FALSE, tokens |-> <<>>]     \* unwrap() on Err
         ELSE IF c \in IdentifierChars
         THEN LET j == RunEnd(input, i, IdentifierChars) IN
              Scan(input, j, Append(toks, Token_Identifier(SubSeq(input, i, j - 1))))
         ELSE IF c = "(" THEN Scan(input, i + 1, Append(toks, Token_LParen))
         ELSE IF c = ")" THEN Scan(input, i + 1, Append(toks, Token_RParen))
         ELSE Scan(input, i + 1, toks)

tokenize(input) == Scan(input, 1, <<>>)

(***************************************************************************)
(* src/parser.rs: the typed Expression and parse.                          *)
(***************************************************************************)
LInt_Number(n) == [tag |-> "Number", n |-> n]
LInt_Add(a, b) == [tag |-> "Add", a |-> a, b |-> b]
LInt_Subtract(a, b) == [tag |-> "Subtract", a |-> a, b |-> b]
LInt_Read == [tag |-> "Read"]
Binding(name, value) == [name |-> name, value |-> value]
LVar_Let(bindings, body) == [tag |-> "Let", bindings |-> bindings, body |-> body]
LVar_Var(name) == [tag |-> "Var", name |-> name]

Id_let == <<"l", "e", "t">>
Id_read == <<"r", "e", "a", "d">>
Id_plus == <<"+">>
Id_minus == <<"-">>

\* A panic of the parser, with the cursor where it happened.
ParseFail(p) == [ok |-> FALSE, ast |-> NotRun, pos |-> p]
Parsed(ast, p) == [ok |-> TRUE, ast |-> ast, pos |-> p]

\* tokens.peek() at cursor p: the token, or None past the end of the slice.
None == [kind |-> "None"]
Peek(toks, p) == IF p <= Len(toks) THEN toks[p] ELSE None

parse_number(toks, p) ==
    IF Peek(toks, p).kind = "Number" THEN Parsed(LInt_Number(toks[p].n), p + 1)
    ELSE ParseFail(p)

parse_identifier(toks, p) ==
    IF Peek(toks, p).kind = "Identifier" THEN Parsed(LVar_Var(toks[p].id), p + 1)
    ELSE ParseFail(p)

\* The match on the head after the arguments and the ')' are consumed;
\* p is the cursor after that ')'.
CallNode(tok, args, p) ==
    IF tok.kind # "Identifier" THEN ParseFail(p)
    ELSE IF tok.id = Id_plus
    THEN IF Len(args) >= 2 THEN Parsed(LInt_Add(args[1], args[2]), p) ELSE ParseFail(p)
    ELSE IF tok.id = Id_minus
    THEN IF Len(args) >= 2 THEN Parsed(LInt_Subtract(args[1], args[2]), p)
         ELSE ParseFail(p)
    ELSE IF tok.id = Id_read THEN Parsed(LInt_Read, p)
    ELSE ParseFail(p)

RECURSIVE parse_expression(_, _)
RECURSIVE ParseBindings(_, _, _)
RECURSIVE ParseArgs(_, _, _)

\* `while tokens.peek() != Some(&&Token::RParen)` of the let branch.  The
\* result's ast field holds the bindings.
ParseBindings(toks, p, bindings) ==
    IF Peek(toks, p) = Token_RParen THEN Parsed(bindings, p)
    ELSE IF Peek(toks, p) # Token_LParen THEN ParseFail(p)
    ELSE IF Peek(toks, p + 1).kind # "Identifier" THEN ParseFail(p + 1)
    ELSE LET value == parse_expression(toks, p + 2) IN
         IF ~value.ok THEN value
         ELSE IF Peek(toks, value.pos) # Token_RParen THEN ParseFail(value.pos)
         ELSE ParseBindings(toks, value.pos + 1,
                            Append(bindings, Binding(toks[p + 1].id, value.ast)))

\* `while tokens.peek() != Some(&&Token::RParen) { args.push(...) }`.  The
\* result's ast field holds the arguments.
ParseArgs(toks, p, args) ==
    IF Peek(toks, p) = Token_RParen THEN Parsed(args, p)
    ELSE LET arg == parse_expression(toks, p) IN
         IF ~arg.ok THEN arg ELSE ParseArgs(toks, arg.pos, Append(args, arg.ast))

\* The let branch, entered with the cursor p after the head `let`: the
\* binding list, then the body; the function returns right after the body.
ParseLet(toks, p) ==
    IF Peek(toks, p) # Token_LParen THEN ParseFail(p)
    ELSE LET bs == ParseBindings(toks, p + 1, <<>>) IN
         IF ~bs.ok THEN bs
         ELSE LET body == parse_expression(toks, bs.pos + 1) IN
              IF ~body.ok THEN body
              ELSE Parsed(LVar_Let(bs.ast, body.ast), body.pos)

parse_expression(toks, p) ==
    LET peek == Peek(toks, p) IN
    IF peek.kind = "Number" THEN parse_number(toks, p)
    ELSE IF peek.kind = "Identifier" THEN parse_identifier(toks, p)
    ELSE IF peek.kind = "LParen"
    THEN LET tok == Peek(toks, p + 1) IN
         IF tok = None THEN ParseFail(p + 1)         \* tokens.next().unwrap()
         ELSE IF tok = Token_Identifier(Id_let) THEN ParseLet(toks, p + 2)
         ELSE LET as == ParseArgs(toks, p + 2, <<>>) IN
              IF ~as.ok THEN as ELSE CallNode(tok, as.ast, as.pos + 1)
    ELSE ParseFail(p)

parse(toks) == parse_expression(toks, 1)

(***************************************************************************)
(* src/parser.rs: Display.                                                 *)
(***************************************************************************)
RECURSIVE DecimalDigits(_)
\* The decimal digits of n >= 0, without leading zeros.
DecimalDigits(n) ==
    IF n < 10 THEN <<DigitChars[n + 1]>>
    ELSE DecimalDigits(n \div 10) \o <<DigitChars[(n % 10) + 1]>>

\* `write!(f, "{}", n)` of an i32
fmt_i32(n) ==
    IF n >= 0 THEN DecimalDigits(n)
    ELSE IF n = I32_MIN THEN <<"-">> \o DecimalDigits(I32_MAX \div 10) \o <<"8">>
    ELSE <<"-">> \o DecimalDigits(-n)

RECURSIVE fmt(_)
RECURSIVE fmt_bindings(_)

\* `for binding in bindings { write!(f, "({} {})", binding.name, binding.value)?; }`
fmt_bindings(bindings) ==
    IF bindings = <<>> THEN <<>>
    ELSE <<"(">> \o Head(bindings).name \o <<" ">> \o fmt(Head(bindings).value)
             \o <<")">> \o fmt_bindings(Tail(bindings))

fmt(e) ==
    CASE e.tag = "Number" -> fmt_i32(e.n)
      [] e.tag = "Add" -> <<"(", "+", " ">> \o fmt(e.a) \o <<" ">> \o fmt(e.b) \o <<")">>
      [] e.tag = "Subtract" ->
            <<"(", "-", " ">> \o fmt(e.a) \o <<" ">> \o fmt(e.b) \o <<")">>
      [] e.tag = "Read" -> <<"(">> \o Id_read \o <<")">>
      [] e.tag = "Let" ->
            <<"(">> \o Id_let \o <<" ", "(">> \o fmt_bindings(e.bindings)
                \o <<")", " ">> \o fmt(e.body) \o <<")">>
      [] e.tag = "Var" -> e.name

(***************************************************************************)
(* The inputs of the parser.rs functions: every typed Expression of at     *)
(* most the given number of nodes over the leaves below, and source texts  *)
(* made of at most MaxChunks chunks or of one call form with at most       *)
(* MaxArgs arguments.                                                      *)
(***************************************************************************)
MaxAstNodes == 4
MaxChunks == 3
MaxArgs == 3

Names == {<<"x">>, <<"y">>}
\* The leaves printed and parsed, and the leaves evaluated.
ParserLeaves ==
    {LInt_Number(1), LInt_Number(20), LInt_Read} \cup {LVar_Var(name) : name \in Names}
EvalLeaves == {LInt_Number(1), LInt_Read} \cup {LVar_Var(name) : name \in Names}

\* The Add and Subtract nodes of n nodes, asts[k] being the expressions of k nodes.
OperatorNodes(n, asts) ==
    UNION {{LInt_Add(a, b) : a \in asts[i], b \in asts[n - 1 - i]}
              \cup {LInt_Subtract(a, b) : a \in asts[i], b \in asts[n - 1 - i]} :
           i \in 1..(n - 2)}

\* The Let nodes of n nodes, binds[m + 1] being the binding lists whose values
\* have m nodes in total.
LetNodes(n, asts, binds) ==
    UNION {{LVar_Let(bs, body) : bs \in binds[n - i], body \in asts[i]} :
           i \in 1..(n - 1)}

\* The binding lists whose values have m >= 1 nodes in total.
BindingLists(m, asts, binds) ==
    UNION {{<<Binding(name, value)>> \o rest :
                name \in Names, value \in asts[k], rest \in binds[m - k + 1]} :
           k \in 1..m}

RECURSIVE AstTable(_, _, _, _)
\* asts[k] for k up to max and binds[m + 1] for m up to max - 2, built from
\* the leaves one size at a time.
AstTable(n, max, asts, binds) ==
    IF n > max THEN [asts |-> asts, binds |-> binds]
    ELSE AstTable(n + 1, max,
                  Append(asts, OperatorNodes(n, asts) \cup LetNodes(n, asts, binds)),
                  IF n = max THEN binds
                  ELSE Append(binds, BindingLists(n - 1, asts, binds)))

\* e is one of the typed expressions of at most max >= 3 nodes over the leaves.
IsAstUpTo(e, max, leaves) ==
    LET t == AstTable(2, max - 1, <<leaves>>, <<{<<>>}>>) IN
    \/ \E k \in 1..(max - 1) : e \in t.asts[k]
    \/ \E i \in 1..(max - 2) : \E a \in t.asts[i], b \in t.asts[max - 1 - i] :
          e \in {LInt_Add(a, b), LInt_Subtract(a, b)}
    \/ \E body \in t.asts[max - 1] : e = LVar_Let(<<>>, body)
    \/ \E i \in 1..(max - 2), k \in 1..(max - 2) :
          /\ k <= max - 1 - i
          /\ \E name \in Names, value \in t.asts[k],
                rest \in t.binds[max - i - k], body \in t.asts[i] :
                e = LVar_Let(<<Binding(name, value)>> \o rest, body)

Chunks ==
    {<<"(">>, <<")">>, <<" ">>, <<"#">>, <<"+">>, <<"a", "b">>, <<"7">>,
     <<"2", "1", "4", "7", "4", "8", "3", "6", "4", "8">>}

RECURSIVE ChunkTexts(_)
ChunkTexts(n) ==
    IF n = 0 THEN {<<>>}
    ELSE ChunkTexts(n - 1) \cup {t \o c : t \in ChunkTexts(n - 1), c \in Chunks}

RECURSIVE CallFormArgs(_)
CallFormArgs(n) == IF n = 0 THEN <<>> ELSE <<" ", "1">> \o CallFormArgs(n - 1)

\* The text "(head 1 ... 1)" with n arguments.
CallFormText(head, n) == <<"(">> \o head \o CallFormArgs(n) \o <<")">>

CallFormTexts == {CallFormText(head, n) : head \in {Id_plus, Id_minus, Id_read},
                                          n \in 0..MaxArgs}

Texts == ChunkTexts(MaxChunks) \cup CallFormTexts

(***************************************************************************)
(* src/parser.rs: Display, tokenize and parse applied in turn.             *)
(***************************************************************************)
ParserInit ==
    /\ \/ pc = "ast" /\ IsAstUpTo(ast_in, MaxAstNodes, ParserLeaves) /\ text = <<>>
       \/ pc = "text" /\ ast_in = NotRun /\ text \in Texts
    /\ tokens = <<>> /\ parsed = NoParse
    /\ overflow_checks = FALSE /\ stdin = <<>>
    /\ MainIdle /\ EvalIdle

\* `format!("{}", ast)`
Visualize ==
    /\ pc = "ast"
    /\ text' = fmt(ast_in)
    /\ pc' = "text"
    /\ UNCHANGED <<overflow_checks, stdin, mainVars, ast_in, tokens, parsed, evalVars>>

\* `let tokens = tokenize(input);`
Tokenize ==
    /\ pc = "text"
    /\ LET r == tokenize(text) IN
        /\ tokens' = r.tokens
        /\ pc' = IF r.ok THEN "tokens" ELSE "tokenize_panicked"
    /\ UNCHANGED <<overflow_checks, stdin, mainVars, ast_in, text, parsed, evalVars>>

\* `parse(&tokens)`
Parse ==
    /\ pc = "tokens"
    /\ parsed' = parse(tokens)
    /\ pc' = "parsed"
    /\ UNCHANGED <<overflow_checks, stdin, mainVars, ast_in, text, tokens, evalVars>>

ParserNext == Visualize \/ Tokenize \/ Parse

ParserSpec == ParserInit /\ [][ParserNext]_vars

(***************************************************************************)
(* Claims about tokenize, parse and Display, checked under ParserSpec.     *)
(***************************************************************************)
\* C3: the text printed for an AST of non-negative Numbers, Add, Subtract,
\* Read, Let and Var tokenizes, parses, and parses to that AST.
C3_PrintedTextParsesBack ==
    ast_in # NotRun =>
        /\ pc # "tokenize_panicked"
        /\ pc = "parsed" => (parsed.ok /\ parsed.ast = ast_in)

\* The tokens from the third on are k Number tokens, then ')' and the end.
IsCallFormWith(toks, k) ==
    /\ Len(toks) = k + 4
    /\ toks[1] = Token_LParen /\ toks[2].kind = "Identifier"
    /\ \A i \in 3..(k + 2) : toks[i].kind = "Number"
    /\ toks[k + 3] = Token_RParen /\ toks[k + 4] = Token_EndOfFile

\* C5: parse fails on every call form whose head is + or - and that has not
\* exactly two arguments, and on every read form that has an argument.
C5_ArityIsEnforced ==
    pc = "parsed" =>
        \A k \in 0..(Len(tokens) - 4) :
            (/\ IsCallFormWith(tokens, k)
             /\ \/ tokens[2].id \in {Id_plus, Id_minus} /\ k # 2
                \/ tokens[2].id = Id_read /\ k # 0)
            => ~parsed.ok

\* C7: tokenize returns on every text, and what it returns holds exactly one
\* EndOfFile token, at its end.
C7_TokenizeIsTotal ==
    /\ pc # "tokenize_panicked"
    /\ pc \in {"tokens", "parsed"} =>
        /\ tokens # <<>> /\ tokens[Len(tokens)] = Token_EndOfFile
        /\ Cardinality({i \in 1..Len(tokens) : tokens[i] = Token_EndOfFile}) = 1

RECURSIVE OpenParens(_)
\* The number of '(' less the number of ')' in a token sequence.
OpenParens(toks) ==
    IF toks = <<>> THEN 0
    ELSE OpenParens(Tail(toks))
            + (IF Head(toks) = Token_LParen THEN 1
               ELSE IF Head(toks) = Token_RParen THEN -1 ELSE 0)

\* C9: after parse_expression has parsed a let form, the cursor is past the
\* ')' that closes the form: the tokens consumed are balanced.
C9_LetConsumesItsClosingParen ==
    (pc = "parsed" /\ parsed.ok /\ tokens[1] = Token_LParen
        /\ tokens[2] = Token_Identifier(Id_let))
    => OpenParens(SubSeq(tokens, 1, parsed.pos - 1)) = 0

(***************************************************************************)
(* src/parser.rs: Expression::evaluate, one action for each step of eval.  *)
(* kont holds the work still to do, first to do first: an expression to    *)
(* evaluate, an operator waiting for its two operands, or a binding        *)
(* waiting for its value.  vals holds the values returned, last first.     *)
(***************************************************************************)
MaxEvalNodes == 5

EvalLines == {Line(I32_MAX), BadLine}

EvalFrame(e) == [op |-> "eval", e |-> e]
AddFrame == [op |-> "add"]
SubtractFrame == [op |-> "subtract"]
InsertFrame(name) == [op |-> "insert", name |-> name]

RECURSIVE ReadNodes(_)
RECURSIVE ReadNodesOfBindings(_)

ReadNodesOfBindings(bindings) ==
    IF bindings = <<>> THEN 0
    ELSE ReadNodes(Head(bindings).value) + ReadNodesOfBindings(Tail(bindings))

\* The number of Read nodes of a typed Expression.
ReadNodes(e) ==
    CASE e.tag \in {"Add", "Subtract"} -> ReadNodes(e.a) + ReadNodes(e.b)
      [] e.tag = "Let" -> ReadNodesOfBindings(e.bindings) + ReadNodes(e.body)
      [] e.tag = "Read" -> 1
      [] OTHER -> 0

\* `env.entry(name).or_insert(value)`: a name already bound keeps its value.
env_insert_if_absent(e, name, value) ==
    [k \in DOMAIN e \cup {name} |-> IF k \in DOMAIN e THEN e[k] ELSE value]

\* `env.insert(binding.name.clone(), value)`
env_insert(e, name, value) ==
    [k \in DOMAIN e \cup {name} |-> IF k = name THEN value ELSE e[k]]

RECURSIVE BindingFrames(_)
\* `for binding in bindings { let value = binding.value.eval(env); env.insert(..) }`
BindingFrames(bindings) ==
    IF bindings = <<>> THEN <<>>
    ELSE <<EvalFrame(Head(bindings).value), InsertFrame(Head(bindings).name)>>
            \o BindingFrames(Tail(bindings))

Evaluating(tag) ==
    /\ pc = "eval" /\ kont # <<>>
    /\ Head(kont).op = "eval" /\ Head(kont).e.tag = tag

EvalInit ==
    /\ pc = "eval"
    /\ overflow_checks \in BOOLEAN
    /\ IsAstUpTo(ast_in, MaxEvalNodes, EvalLeaves)
    /\ stdin \in [1..ReadNodes(ast_in) -> EvalLines]
    /\ text = <<>> /\ tokens = <<>> /\ parsed = NoParse
    /\ env = EmptyEnv                       \* `let mut env = Env::new();`
    /\ kont = <<EvalFrame(ast_in)>>         \* `self.eval(&mut env)`
    /\ vals = <<>> /\ pos = 0 /\ fault = "" /\ written = EmptyEnv
    /\ MainIdle

\* `LInt::Number(n) => *n`
EvalNumber ==
    /\ Evaluating("Number")
    /\ vals' = <<Head(kont).e.n>> \o vals
    /\ kont' = Tail(kont)
    /\ UNCHANGED <<pc, overflow_checks, stdin, mainVars, parserVars, env, pos,
                   fault, written>>

\* `LInt::Add(a, b) => a.eval(env) + b.eval(env)`: a, then b, then the sum
EvalAdd ==
    /\ Evaluating("Add")
    /\ kont' = <<EvalFrame(Head(kont).e.a), EvalFrame(Head(kont).e.b), AddFrame>>
                  \o Tail(kont)
    /\ UNCHANGED <<pc, overflow_checks, stdin, mainVars, parserVars, env, vals,
                   pos, fault, written>>

\* `LInt::Subtract(a, b) => a.eval(env) - b.eval(env)`
EvalSubtract ==
    /\ Evaluating("Subtract")
    /\ kont' = <<EvalFrame(Head(kont).e.a), EvalFrame(Head(kont).e.b), SubtractFrame>>
                  \o Tail(kont)
    /\ UNCHANGED <<pc, overflow_checks, stdin, mainVars, parserVars, env, vals,
                   pos, fault, written>>

\* `LInt::Read()`: one line of stdin, parsed and unwrapped
EvalRead ==
    /\ Evaluating("Read")
    /\ LET r == read_line(stdin, pos) IN
        /\ pos' = r.pos
        /\ IF r.ok
           THEN /\ vals' = <<r.val>> \o vals
                /\ kont' = Tail(kont)
                /\ UNCHANGED <<pc, fault>>
           ELSE /\ pc' = "panicked" /\ fault' = "input"
                /\ UNCHANGED <<vals, kont>>
    /\ UNCHANGED <<overflow_checks, stdin, mainVars, parserVars, env, written>>

\* `LVar::Let(bindings, body)`: the bindings in order, then the body
EvalLet ==
    /\ Evaluating("Let")
    /\ kont' = BindingFrames(Head(kont).e.bindings)
                  \o <<EvalFrame(Head(kont).e.body)>> \o Tail(kont)
    /\ UNCHANGED <<pc, overflow_checks, stdin, mainVars, parserVars, env, vals,
                   pos, fault, written>>

\* `LVar::Var(name) => env.get(name).unwrap().clone()`
EvalVar ==
    /\ Evaluating("Var")
    /\ IF Head(kont).e.name \in DOMAIN env
       THEN /\ vals' = <<env[Head(kont).e.name]>> \o vals
            /\ kont' = Tail(kont)
            /\ UNCHANGED <<pc, fault>>
       ELSE /\ pc' = "panicked" /\ fault' = "unbound"
            /\ UNCHANGED <<vals, kont>>
    /\ UNCHANGED <<overflow_checks, stdin, mainVars, parserVars, env, pos, written>>

\* The `+` of `a.eval(env) + b.eval(env)`, both operands returned
ApplyAdd ==
    /\ pc = "eval" /\ kont # <<>> /\ Head(kont) = AddFrame
    /\ LET r == i32_add(vals[2], vals[1]) IN
        IF r.ok
        THEN /\ vals' = <<r.val>> \o SubSeq(vals, 3, Len(vals))
             /\ kont' = Tail(kont)
             /\ UNCHANGED <<pc, fault>>
        ELSE /\ pc' = "panicked" /\ fault' = "overflow"
             /\ UNCHANGED <<vals, kont>>
    /\ UNCHANGED <<overflow_checks, stdin, mainVars, parserVars, env, pos, written>>

\* The `-` of `a.eval(env) - b.eval(env)`, both operands returned
ApplySubtract ==
    /\ pc = "eval" /\ kont # <<>> /\ Head(kont) = SubtractFrame
    /\ LET r == i32_sub(vals[2], vals[1]) IN
        IF r.ok
        THEN /\ vals' = <<r.val>> \o SubSeq(vals, 3, Len(vals))
             /\ kont' = Tail(kont)
             /\ UNCHANGED <<pc, fault>>
        ELSE /\ pc' = "panicked" /\ fault' = "overflow"
             /\ UNCHANGED <<vals, kont>>
    /\ UNCHANGED <<overflow_checks, stdin, mainVars, parserVars, env, pos, written>>

\* `env.insert(binding.name.clone(), value)`, the binding's value returned
InsertBinding ==
    /\ pc = "eval" /\ kont # <<>> /\ Head(kont).op = "insert"
    /\ env' = env_insert(env, Head(kont).name, Head(vals))
    /\ written' = [k \in DOMAIN written \cup {Head(kont).name} |->
                      IF k = Head(kont).name THEN Head(vals) ELSE written[k]]
    /\ vals' = Tail(vals)
    /\ kont' = Tail(kont)
    /\ UNCHANGED <<pc, overflow_checks, stdin, mainVars, parserVars, pos, fault>>

\* evaluate returns the value of the whole expression; env is dropped
Return ==
    /\ pc = "eval" /\ kont = <<>>
    /\ pc' = "returned"
    /\ UNCHANGED <<overflow_checks, stdin, mainVars, parserVars, evalVars>>

EvalNext ==
    \/ EvalNumber \/ EvalAdd \/ EvalSubtract \/ EvalRead \/ EvalLet \/ EvalVar
    \/ ApplyAdd \/ ApplySubtract \/ InsertBinding \/ Return

EvalSpec == EvalInit /\ [][EvalNext]_vars

(***************************************************************************)
(* Claims about evaluate, checked under EvalSpec.                          *)
(***************************************************************************)
\* C6: during one evaluate call every name a Let has written stays mapped in
\* the Environment, to the value last written for it, whatever has returned
\* since; so a Var fails as unbound only for a name no Let has written yet.
C6_BindingsHaveDynamicExtent ==
    /\ \A name \in DOMAIN written :
          name \in DOMAIN env /\ env[name] = written[name]
    /\ fault = "unbound" => Head(kont).e.name \notin DOMAIN written

\* C6's case: (+ (let ((x 1)) 1) x), or the same with y for x, has returned
\* 1 + 1: the right operand read the x that the Let in the left operand had
\* bound, after that Let had returned.
C6_Witness ==
    /\ pc = "returned" /\ vals = <<2>>
    /\ ast_in.tag = "Add" /\ ast_in.a.tag = "Let" /\ ast_in.b.tag = "Var"
    /\ Len(ast_in.a.bindings) = 1
    /\ ast_in.a.bindings[1].name = ast_in.b.name
    /\ ast_in.a.bindings[1].value = LInt_Number(1)
    /\ ast_in.a.body = LInt_Number(1)

====
